---- MODULE Spec2Model ----
(***************************************************************************)
(* Model of cuprate's consensus crate:                                     *)
(*   - consensus/src/rpc.rs   : the cloneable RPC adapter `Rpc<R>` that    *)
(*     serialises calls on one shared connection and keeps a sticky error  *)
(*   - consensus/src/block.rs : `verify_main_chain_block`, the block       *)
(*     verification pipeline of `BlockVerifierService`                     *)
(***************************************************************************)
EXTENDS Integers, Sequences, FiniteSets, TLC

(***************************************************************************)
(* Bounds                                                                  *)
(***************************************************************************)
\* number of adapter handles (the original plus its clones)
MaxHandles == 2

Handles == 1..MaxHandles

\* RpcError values a remote call can fail with
Errors == {"E1", "E2"}

\* DatabaseRequest variants, BlockID resolved (rpc.rs 80-118)
ReqKinds == {"ChainHeight", "HeaderByHash", "HeaderByHeight", "PowByHash", "PowByHeight"}

VARIABLES
    handles,        \* the Rpc values that exist (the original and its clones)
    rpc_state,      \* Rpc::rpc_state of each handle: Locked | Acquiring | Acquired
    pc,             \* where the caller of each handle is: idle | polling | panicked
    poll_res,       \* what the last poll_ready of each handle returned (None once call used it)
    fut,            \* the future returned by the last call of each handle
    returned,       \* what the most recently completed call future resolved to
    mutex_locked,   \* the futures::lock::Mutex around the connection (Rpc::rpc)
    error_slot,     \* Rpc::error_slot, shared by all clones
    chain,          \* how far the chain behind the context service has advanced
    vreq,           \* the verify_main_chain_block future of each request
    pow_info        \* the last get_blocks_pow_info call: its id, the reply, the result

rpcVars == <<handles, rpc_state, pc, poll_res, fut, returned, mutex_locked, error_slot>>

blockVars == <<chain, vreq>>

powVars == <<pow_info>>

vars == <<rpcVars, blockVars, powVars>>

NoFut == [stage |-> "none", req |-> "none", res |-> "none"]

(***************************************************************************)
(* Rpc::new_http (rpc.rs 29-36): one handle, Locked, unlocked mutex, empty *)
(* error slot.                                                             *)
(***************************************************************************)
InitRpc ==
    /\ handles = {1}
    /\ rpc_state = [h \in Handles |-> "Locked"]
    /\ pc = [h \in Handles |-> "idle"]
    /\ poll_res = [h \in Handles |-> "None"]
    /\ fut = [h \in Handles |-> NoFut]
    /\ returned = "None"
    /\ mutex_locked = FALSE
    /\ error_slot = "None"

(***************************************************************************)
(* Rpc::clone (rpc.rs 39-47): the new handle shares the mutex and the      *)
(* error slot and starts Locked.                                           *)
(***************************************************************************)
\* faulty variant of CloneState: the clone copies the state of the original
CloneStateCopied(st) == st

CloneState(st) == "Locked"

Clone(h) ==
    /\ h \in handles
    /\ pc[h] = "idle"
    /\ Cardinality(handles) < MaxHandles
    /\ LET n == Cardinality(handles) + 1 IN
         /\ handles' = handles \cup {n}
         /\ rpc_state' = [rpc_state EXCEPT ![n] = CloneState(rpc_state[h])]
    /\ UNCHANGED <<pc, poll_res, fut, returned, mutex_locked, error_slot, blockVars, powVars>>

(***************************************************************************)
(* Rpc::poll_ready (rpc.rs 55-70).  The read of the error slot (56-58) and *)
(* the poll of the lock future (59-69) are separate accesses to shared     *)
(* memory, so other tasks may run between them.                            *)
(***************************************************************************)
\* rpc.rs 56-58: Some(e) returns Ready(Err(e)), None falls through to the loop
ErrorCheck(slot) == IF slot \in Errors THEN slot ELSE "Continue"

PollReadyCheck(h) ==
    /\ h \in handles
    /\ pc[h] = "idle"
    /\ IF ErrorCheck(error_slot) = "Continue"
         THEN /\ pc' = [pc EXCEPT ![h] = "polling"]
              /\ UNCHANGED poll_res
         ELSE /\ poll_res' = [poll_res EXCEPT ![h] = ErrorCheck(error_slot)]
              /\ UNCHANGED pc
    /\ UNCHANGED <<handles, rpc_state, fut, returned, mutex_locked, error_slot, blockVars, powVars>>

\* faulty variant of LockPoll: the guard is granted without looking at the mutex
LockPollNoExclusion(locked) == "Granted"

\* rpc.rs 65: OwnedMutexLockFuture::poll grants the guard iff the mutex is free
LockPoll(locked) == IF locked THEN "Pending" ELSE "Granted"

\* faulty variant of PollIter: a Locked handle polls the lock at once
PollIterSkipsAcquiring(st, locked) ==
    CASE st = "Acquired" -> [state |-> "Acquired", ret |-> "Ok", lock |-> locked]
      [] OTHER ->
           IF LockPoll(locked) = "Granted"
             THEN [state |-> "Acquired", ret |-> "Again", lock |-> TRUE]
             ELSE [state |-> "Acquiring", ret |-> "Pending", lock |-> locked]

\* rpc.rs 60-68: one iteration of the loop; ret is Again when the loop goes
\* round, else what poll_ready returns
PollIter(st, locked) ==
    CASE st = "Locked" -> [state |-> "Acquiring", ret |-> "Again", lock |-> locked]
      [] st = "Acquiring" ->
           IF LockPoll(locked) = "Granted"
             THEN [state |-> "Acquired", ret |-> "Again", lock |-> TRUE]
             ELSE [state |-> "Acquiring", ret |-> "Pending", lock |-> locked]
      [] st = "Acquired" -> [state |-> "Acquired", ret |-> "Ok", lock |-> locked]

RECURSIVE PollPath(_, _)

\* rpc.rs 59-69: the iterations the loop makes until it returns
PollPath(st, locked) ==
    LET it == PollIter(st, locked)
    IN IF it.ret = "Again" THEN <<it>> \o PollPath(it.state, it.lock) ELSE <<it>>

\* rpc.rs 59-69: the loop, from state st with the mutex locked or not
PollLoop(st, locked) ==
    LET path == PollPath(st, locked) IN path[Len(path)]

PollReadyLoop(h) ==
    /\ h \in handles
    /\ pc[h] = "polling"
    /\ LET r == PollLoop(rpc_state[h], mutex_locked) IN
         /\ rpc_state' = [rpc_state EXCEPT ![h] = r.state]
         /\ poll_res' = [poll_res EXCEPT ![h] = r.ret]
         /\ mutex_locked' = r.lock
    /\ pc' = [pc EXCEPT ![h] = "idle"]
    /\ UNCHANGED <<handles, fut, returned, error_slot, blockVars, powVars>>

(***************************************************************************)
(* Rpc::call (rpc.rs 72-119): takes the guard out of rpc_state, leaving    *)
(* Locked; panics unless the state was Acquired.  The guard moves into the *)
(* returned future.                                                        *)
(***************************************************************************)
\* faulty variant of MutexAfterCall: the guard is dropped when call returns
MutexDroppedAtCall(locked) == FALSE

\* rpc.rs 73, 81-82: the guard taken out of rpc_state is moved into the
\* future, not dropped
MutexAfterCall(locked) == locked

\* faulty variant of CallPermitted: only the Locked state is rejected
CallPermittedUnlessLocked(st) == st # "Locked"

\* rpc.rs 73-76: the let-else
CallPermitted(st) == st = "Acquired"

Call(h, req) ==
    /\ h \in handles
    /\ pc[h] = "idle"
    /\ fut[h].stage = "none"
    /\ rpc_state' = [rpc_state EXCEPT ![h] = "Locked"]
    /\ IF CallPermitted(rpc_state[h])
         THEN /\ fut' = [fut EXCEPT ![h] = [stage |-> "created", req |-> req, res |-> "none"]]
              /\ mutex_locked' = MutexAfterCall(mutex_locked)
              /\ UNCHANGED pc
         ELSE /\ pc' = [pc EXCEPT ![h] = "panicked"]
              /\ UNCHANGED <<fut, mutex_locked>>
    /\ poll_res' = [poll_res EXCEPT ![h] = "None"]
    /\ UNCHANGED <<handles, returned, error_slot, blockVars, powVars>>

(***************************************************************************)
(* The future returned by call.  First poll: the remote call is sent.      *)
(***************************************************************************)
\* rpc.rs 84, 107: try_into().unwrap() gives the converted height when it
\* fits the target type and panics when it does not
TryIntoUnwrap(fits) == IF fits THEN "Converted" ELSE "Panic"

\* rpc.rs 107: only the header-by-height request converts its argument
RequestConversion(req, fits) ==
    IF req = "HeaderByHeight" THEN TryIntoUnwrap(fits) ELSE "Converted"

\* the future's captured guard is dropped when the future is: on its return
\* (rpc.rs 90, 103, 114, 167) and when a panic unwinds through it
MutexAfterDrop(locked) == FALSE

\* fits: the requested height fits the connection's height type
FutPoll(h, fits) ==
    /\ fut[h].stage = "created"
    /\ IF RequestConversion(fut[h].req, fits) = "Panic"
         THEN /\ fut' = [fut EXCEPT ![h] = NoFut]
              /\ returned' = "PanicBlockNumber"
              /\ mutex_locked' = MutexAfterDrop(mutex_locked)
         ELSE /\ fut' = [fut EXCEPT ![h].stage = "awaiting"]
              /\ UNCHANGED <<returned, mutex_locked>>
    /\ UNCHANGED <<handles, rpc_state, pc, poll_res, error_slot, blockVars, powVars>>

\* what the remote call of request req may answer: a value, an RpcError,
\* and for get_height a height that DatabaseResponse::ChainHeight cannot hold
RemoteOutcomes(req) ==
    {"Ok"} \cup Errors \cup (IF req = "ChainHeight" THEN {"OkTooLarge"} ELSE {})

\* rpc.rs 84: the map_ok closure of the chain-height arm converts the height
ReplyConversion(req, out) ==
    IF req = "ChainHeight" /\ out \in {"Ok", "OkTooLarge"}
      THEN TryIntoUnwrap(out = "Ok") ELSE "Converted"

\* rpc.rs 86-88, 99-101, 110-112 store the error; get_blocks_pow_info
\* (122-167) propagates it with `?` and has no access to the slot
WritesErrorSlot(req) == req \in {"ChainHeight", "HeaderByHash", "HeaderByHeight"}

\* faulty variant of SlotAfterReply: a successful call resets the slot
SlotClearedOnSuccess(slot, req, out) ==
    IF out \in Errors /\ WritesErrorSlot(req) THEN out ELSE "None"

\* the error slot after the remote call of request req answered out
SlotAfterReply(slot, req, out) ==
    IF out \in Errors /\ WritesErrorSlot(req) THEN out ELSE slot

RemoteReply(h, out) ==
    /\ fut[h].stage = "awaiting"
    /\ out \in RemoteOutcomes(fut[h].req)
    /\ IF ReplyConversion(fut[h].req, out) = "Panic"
         THEN /\ fut' = [fut EXCEPT ![h] = NoFut]
              /\ returned' = "PanicChainHeight"
              /\ mutex_locked' = MutexAfterDrop(mutex_locked)
              /\ UNCHANGED error_slot
         ELSE /\ error_slot' = SlotAfterReply(error_slot, fut[h].req, out)
              /\ fut' = [fut EXCEPT ![h].stage = "replied", ![h].res = out]
              /\ UNCHANGED <<returned, mutex_locked>>
    /\ UNCHANGED <<handles, rpc_state, pc, poll_res, blockVars, powVars>>

\* faulty variant of MutexAfterReturn: the guard is leaked on the error path
MutexKeptOnError(res) == res \in Errors

\* the future completes: its captured guard is dropped (rpc.rs 90, 103, 114,
\* 167) whatever the result
MutexAfterReturn(res) == FALSE

FutReturn(h) ==
    /\ fut[h].stage = "replied"
    /\ returned' = fut[h].res
    /\ mutex_locked' = MutexAfterReturn(fut[h].res)
    /\ fut' = [fut EXCEPT ![h] = NoFut]
    /\ UNCHANGED <<handles, rpc_state, pc, poll_res, error_slot, blockVars, powVars>>

NextRpc ==
    \/ \E h \in Handles : Clone(h)
    \/ \E h \in Handles : PollReadyCheck(h)
    \/ \E h \in Handles : PollReadyLoop(h)
    \/ \E h \in Handles, req \in ReqKinds : Call(h, req)
    \/ \E h \in Handles, fits \in BOOLEAN : FutPoll(h, fits)
    \/ \E h \in Handles, out \in RemoteOutcomes("ChainHeight") : RemoteReply(h, out)
    \/ \E h \in Handles : FutReturn(h)

(***************************************************************************)
(* Block verification (block.rs).  The collaborators are outside the       *)
(* service: the context service, the transaction pool, the transaction     *)
(* verifier and the consensus rules answer as their contracts say.         *)
(***************************************************************************)
\* concurrent verification requests
MaxRequests == 2

\* blocks the chain behind the context service may grow by meanwhile
MaxAdvance == 1

Requests == 1..MaxRequests

RECURSIVE CumulativeDifficulty(_)

\* difficulty of the block that will extend a chain advanced k times
NextDifficulty(k) == 500 + 100 * k

CumulativeDifficulty(k) ==
    IF k = 0 THEN 10000 ELSE CumulativeDifficulty(k - 1) + NextDifficulty(k - 1)

\* the context service's snapshot of a chain advanced k times
ContextSnapshot(k) ==
    [chain_height |-> 100 + k,
     next_difficulty |-> NextDifficulty(k),
     cumulative_difficulty |-> CumulativeDifficulty(k)]

\* the transactions the pool holds, by hash
TxPool == [t \in {"t1", "t2"} |-> [tx_weight |-> 300, fee |-> 10]]

\* TxPoolRequest::Transactions: all the transactions, or TxNotInPool
PoolResponse(hashes) ==
    IF \A i \in DOMAIN hashes : hashes[i] \in DOMAIN TxPool
      THEN [ok |-> TRUE, txs |-> [i \in DOMAIN hashes |-> TxPool[hashes[i]]]]
      ELSE [ok |-> FALSE, txs |-> <<>>]

\* the largest hash-times-difficulty product that meets the target (scaled)
HashLimit == 10000

\* check_block_pow: the hash meets the difficulty
CheckBlockPow(hash, difficulty) == hash * difficulty <= HashLimit

\* what calculate_pow_hash may answer: an error, or a hash
PowOutcomes ==
    {[ok |-> FALSE, hash |-> -1], [ok |-> TRUE, hash |-> 1], [ok |-> TRUE, hash |-> 20]}

\* candidate blocks: the hashes of their transactions, the miner tx weight
BlockChoices ==
    {[txs |-> q, miner_tx_weight |-> 600] :
        q \in {<< >>, <<"t1", "t2">>, <<"t1", "t3">>}}

AllSteps == <<"context", "pool", "tx_verify", "check_block", "pow_hash", "check_pow">>

NoBlock == [txs |-> << >>, miner_tx_weight |-> 0]

NoContext == [chain_height |-> -1, next_difficulty |-> -1, cumulative_difficulty |-> -1]

NoResult ==
    [kind |-> "none", err |-> "none", txs |-> << >>, pow_hash |-> -1,
     weight |-> -1, height |-> -1, cumulative_difficulty |-> -1]

ErrResult(e) == [NoResult EXCEPT !.kind = "Err", !.err = e]

IdleRequest ==
    [pc |-> "idle", block |-> NoBlock, context |-> NoContext, txs |-> << >>,
     block_weight |-> -1, total_fees |-> -1, trace |-> << >>, result |-> NoResult]

InitBlock ==
    /\ chain = 0
    /\ vreq = [r \in Requests |-> IdleRequest]

\* the collaborator's answer to the step being awaited is written to the trace
Answered(trace, out) == [trace EXCEPT ![Len(trace)].out = out]

Started(trace, step) == Append(trace, [step |-> step, out |-> "pending"])

Finish(rq, trace, result) == [rq EXCEPT !.pc = "done", !.trace = trace, !.result = result]

(***************************************************************************)
(* The chain grows (the commit stage, outside the service).                *)
(***************************************************************************)
ChainAdvance ==
    /\ chain < MaxAdvance
    /\ chain' = chain + 1
    /\ UNCHANGED <<vreq, rpcVars, powVars>>

(***************************************************************************)
(* BlockVerifierService::call (block.rs 131-144) and the first poll of     *)
(* verify_main_chain_block up to its first await (167-170).                *)
(***************************************************************************)
VerifyCall(r, block) ==
    /\ vreq[r].pc = "idle"
    /\ vreq' = [vreq EXCEPT ![r] =
                  [@ EXCEPT !.pc = "context", !.block = block,
                            !.trace = Started(@, "context")]]
    /\ UNCHANGED <<chain, rpcVars, powVars>>

\* From<..> for ExtendedConsensusError, by the type converted: the context
\* service's BoxError, the pool's TxNotInPool, the rules' ConsensusError
IntoExtendedConsensusError(source) ==
    CASE source = "BoxError" -> "Upstream"
      [] source = "TxNotInPool" -> "MissingData"
      [] OTHER -> "Consensus"

\* faulty variant of ContextStep: the failure is wrapped as a block error
ContextStepAsBlockError(out) ==
    CASE out = "ok" -> [next |-> "continue", err |-> "none"]
      [] out = "err" -> [next |-> "fail", err |-> IntoExtendedConsensusError("ConsensusError")]
      [] OTHER -> [next |-> "panic", err |-> "none"]

\* block.rs 168-174: `?` on the error, panic on any other response
ContextStep(out) ==
    CASE out = "ok" -> [next |-> "continue", err |-> "none"]
      [] out = "err" -> [next |-> "fail", err |-> IntoExtendedConsensusError("BoxError")]
      [] OTHER -> [next |-> "panic", err |-> "none"]

(***************************************************************************)
(* The context service answers (block.rs 168-181): the snapshot is cloned  *)
(* and the pool is asked for the block's transactions.                     *)
(***************************************************************************)
ContextReply(r, out) ==
    /\ vreq[r].pc = "context"
    /\ LET rq == vreq[r]
           tr == Answered(rq.trace, out)
           d == ContextStep(out)
       IN vreq' = [vreq EXCEPT ![r] =
            CASE d.next = "continue" ->
                   [rq EXCEPT !.pc = "pool", !.context = ContextSnapshot(chain),
                              !.trace = Started(tr, "pool")]
              [] d.next = "fail" -> Finish(rq, tr, ErrResult(d.err))
              [] OTHER -> [rq EXCEPT !.pc = "panicked", !.trace = tr]]
    /\ UNCHANGED <<chain, rpcVars, powVars>>

\* faulty variant of PoolStep: the missing transaction is not propagated
PoolStepIgnoresMissing(resp) == [next |-> "continue", err |-> "none"]

\* block.rs 180-182: `?` on TxNotInPool
PoolStep(resp) ==
    IF resp.ok THEN [next |-> "continue", err |-> "none"]
    ELSE [next |-> "fail", err |-> IntoExtendedConsensusError("TxNotInPool")]

(***************************************************************************)
(* The pool answers (block.rs 180-191): the verifier is asked to verify    *)
(* the resolved transactions.                                              *)
(***************************************************************************)
PoolReply(r) ==
    /\ vreq[r].pc = "pool"
    /\ LET rq == vreq[r]
           resp == PoolResponse(rq.block.txs)
           tr == Answered(rq.trace, IF resp.ok THEN "ok" ELSE "err")
           d == PoolStep(resp)
       IN vreq' = [vreq EXCEPT ![r] =
            IF d.next = "continue"
              THEN [rq EXCEPT !.pc = "tx_verify", !.txs = resp.txs,
                              !.trace = Started(tr, "tx_verify")]
              ELSE Finish(rq, tr, ErrResult(d.err))]
    /\ UNCHANGED <<chain, rpcVars, powVars>>

\* faulty variant of TxVerifyStep: the verifier's result is dropped
TxVerifyStepIgnoresError(out) == [next |-> "continue", err |-> "none"]

\* block.rs 184-192: `?` hands the verifier's error on as it is
TxVerifyStep(out) ==
    IF out = "ok" THEN [next |-> "continue", err |-> "none"]
    ELSE [next |-> "fail", err |-> out]

\* block.rs 197-204: `?` on check_block, mapped to ConsensusError::Block
CheckBlockStep(out) ==
    IF out = "ok" THEN [next |-> "continue", err |-> "none"]
    ELSE [next |-> "fail", err |-> IntoExtendedConsensusError("ConsensusError")]

RECURSIVE SumOf(_, _)

\* Iterator::sum over field f of the transactions
SumOf(txs, f) ==
    IF txs = << >> THEN 0 ELSE txs[1][f] + SumOf(Tail(txs), f)

\* faulty variant of BlockWeight: the miner transaction is left out
BlockWeightWithoutMiner(block, txs) == SumOf(txs, "tx_weight")

\* block.rs 194
BlockWeight(block, txs) == block.miner_tx_weight + SumOf(txs, "tx_weight")

\* block.rs 195
TotalFees(txs) == SumOf(txs, "fee")

(***************************************************************************)
(* The verifier answers (block.rs 184-213): weight and fees are summed,    *)
(* check_block runs, and the proof-of-work hash is sent to the rayon pool. *)
(***************************************************************************)
TxVerifyReply(r, out, rules) ==
    /\ vreq[r].pc = "tx_verify"
    /\ LET rq == vreq[r]
           tr == Answered(rq.trace, out)
           d == TxVerifyStep(out)
           w == BlockWeight(rq.block, rq.txs)
           fees == TotalFees(rq.txs)
           tr2 == Answered(Started(tr, "check_block"), rules)
           d2 == CheckBlockStep(rules)
       IN vreq' = [vreq EXCEPT ![r] =
            IF d.next # "continue" THEN Finish(rq, tr, ErrResult(d.err))
            ELSE IF d2.next # "continue"
              THEN Finish([rq EXCEPT !.block_weight = w, !.total_fees = fees],
                          tr2, ErrResult(d2.err))
              ELSE [rq EXCEPT !.pc = "pow_hash", !.block_weight = w, !.total_fees = fees,
                              !.trace = Started(tr2, "pow_hash")]]
    /\ UNCHANGED <<chain, rpcVars, powVars>>

\* block.rs 211-214: `?` on calculate_pow_hash, mapped to ConsensusError::Block
PowHashStep(out) ==
    IF out.ok THEN [next |-> "continue", err |-> "none"]
    ELSE [next |-> "fail", err |-> IntoExtendedConsensusError("ConsensusError")]

\* faulty variant of CheckPowStep: the difficulty verdict is not propagated
CheckPowStepIgnoresVerdict(ok) == [next |-> "continue", err |-> "none"]

\* block.rs 216: `?` on check_block_pow, mapped to ConsensusError::Block
CheckPowStep(ok) ==
    IF ok THEN [next |-> "continue", err |-> "none"]
    ELSE [next |-> "fail", err |-> IntoExtendedConsensusError("ConsensusError")]

\* faulty variant of VerifiedBlockInformation: the block's own difficulty is
\* not added
VerifiedBlockInformationOldDifficulty(rq, hash) ==
    [kind |-> "MainChain", err |-> "none", txs |-> rq.txs, pow_hash |-> hash,
     weight |-> rq.block_weight,
     height |-> rq.context.chain_height,
     cumulative_difficulty |-> rq.context.cumulative_difficulty]

\* block.rs 218-229
VerifiedBlockInformation(rq, hash) ==
    [kind |-> "MainChain", err |-> "none", txs |-> rq.txs, pow_hash |-> hash,
     weight |-> rq.block_weight,
     height |-> rq.context.chain_height,
     cumulative_difficulty |->
         rq.context.cumulative_difficulty + rq.context.next_difficulty]

\* faulty variant of PowReply: the service remembers what it approved and
\* admits one block per height
PowReplyOnePerHeight(r, out) ==
    /\ vreq[r].pc = "pow_hash"
    /\ LET rq == vreq[r]
           tr == Answered(rq.trace, IF out.ok THEN "ok" ELSE "err")
           d == PowHashStep(out)
           met == CheckBlockPow(out.hash, rq.context.next_difficulty)
           tr2 == Answered(Started(tr, "check_pow"), IF met THEN "ok" ELSE "err")
           d2 == CheckPowStep(met)
           taken == \E q \in Requests \ {r} :
                       /\ vreq[q].result.kind = "MainChain"
                       /\ vreq[q].result.height = rq.context.chain_height
       IN vreq' = [vreq EXCEPT ![r] =
            IF d.next # "continue" THEN Finish(rq, tr, ErrResult(d.err))
            ELSE IF d2.next # "continue" \/ taken THEN Finish(rq, tr2, ErrResult(d2.err))
            ELSE Finish(rq, tr2, VerifiedBlockInformation(rq, out.hash))]
    /\ UNCHANGED <<chain, rpcVars, powVars>>

(***************************************************************************)
(* The rayon pool answers (block.rs 211-229): the hash is checked against  *)
(* the snapshot's difficulty and the record is assembled.                  *)
(***************************************************************************)
PowReply(r, out) ==
    /\ vreq[r].pc = "pow_hash"
    /\ LET rq == vreq[r]
           tr == Answered(rq.trace, IF out.ok THEN "ok" ELSE "err")
           d == PowHashStep(out)
           met == CheckBlockPow(out.hash, rq.context.next_difficulty)
           tr2 == Answered(Started(tr, "check_pow"), IF met THEN "ok" ELSE "err")
           d2 == CheckPowStep(met)
       IN vreq' = [vreq EXCEPT ![r] =
            IF d.next # "continue" THEN Finish(rq, tr, ErrResult(d.err))
            ELSE IF d2.next # "continue" THEN Finish(rq, tr2, ErrResult(d2.err))
            ELSE Finish(rq, tr2, VerifiedBlockInformation(rq, out.hash))]
    /\ UNCHANGED <<chain, rpcVars, powVars>>

NextBlock ==
    \/ ChainAdvance
    \/ \E r \in Requests, b \in BlockChoices : VerifyCall(r, b)
    \/ \E r \in Requests, out \in {"ok", "err", "wrong"} : ContextReply(r, out)
    \/ \E r \in Requests : PoolReply(r)
    \/ \E r \in Requests, out \in {"ok", "Consensus", "Upstream"}, rules \in {"ok", "err"} :
          TxVerifyReply(r, out, rules)
    \/ \E r \in Requests, out \in PowOutcomes : PowReply(r, out)

(***************************************************************************)
(* Proof-of-work info (rpc.rs 122-172).  The two u64 halves of the reply   *)
(* are joined into one u128; the model keeps the code's arithmetic with    *)
(* halves of HalfBits bits and a result of twice that width.               *)
(***************************************************************************)
\* bits of one half of the cumulative difficulty (u64 in the code)
HalfBits == 4

\* 2^HalfBits: the values of a half are 0 .. Half - 1
Half == 2 ^ HalfBits

\* the values of the joined type (u128 in the code) are 0 .. Wide - 1
Wide == Half * Half

Halves == 0 .. (Half - 1)

Timestamps == {7, 9}

RECURSIVE BitOr(_, _)

\* a | b on unsigned integers
BitOr(a, b) ==
    IF a = 0 THEN b
    ELSE IF b = 0 THEN a
    ELSE (IF a % 2 = 1 \/ b % 2 = 1 THEN 1 ELSE 0) + 2 * BitOr(a \div 2, b \div 2)

\* x << n in an unsigned type of the given modulus: bits shifted out are lost
ShiftLeft(x, n, modulus) == (x * 2 ^ n) % modulus

\* x as u128: zero extension
AsU128(x) == x % Wide

\* faulty variant of u128_from_low_high: the shift is done in the half's type
u128_from_low_high_shift_before_widening(low, high) ==
    BitOr(AsU128(ShiftLeft(high, HalfBits, Half)), AsU128(low))

\* rpc.rs 169-172
u128_from_low_high(low, high) ==
    LET res == AsU128(high)
    IN BitOr(ShiftLeft(res, HalfBits, Wide), AsU128(low))

\* what json_rpc_call::<Response> may answer: an RpcError or a block header
Replies ==
    [ok : {FALSE}, err : Errors, cumulative_difficulty : {-1},
     cumulative_difficulty_top64 : {-1}, timestamp : {-1}]
    \cup
    [ok : {TRUE}, err : {"none"}, cumulative_difficulty : Halves,
     cumulative_difficulty_top64 : Halves, timestamp : Timestamps]

NoReply ==
    [ok |-> FALSE, err |-> "none", cumulative_difficulty |-> -1,
     cumulative_difficulty_top64 |-> -1, timestamp |-> -1]

NoPowInfo == [kind |-> "none", err |-> "none", timestamp |-> -1, cumulative_difficulty |-> -1]

\* rpc.rs 146-152, 158-164: the response built from the header
BlockPOWInfo(header) ==
    [kind |-> "BlockPOWInfo", err |-> "none", timestamp |-> header.timestamp,
     cumulative_difficulty |->
        u128_from_low_high(header.cumulative_difficulty,
                           header.cumulative_difficulty_top64)]

\* rpc.rs 138-166: `?` on the reply, then the response, in either arm
get_blocks_pow_info(id, reply) ==
    CASE id = "Height" ->
           IF reply.ok THEN BlockPOWInfo(reply)
           ELSE [NoPowInfo EXCEPT !.kind = "Err", !.err = reply.err]
      [] id = "Hash" ->
           IF reply.ok THEN BlockPOWInfo(reply)
           ELSE [NoPowInfo EXCEPT !.kind = "Err", !.err = reply.err]

InitPow == pow_info = [id |-> "none", reply |-> NoReply, result |-> NoPowInfo]

\* the future of one proof-of-work-info call resolves once
PowInfoCall(id, reply) ==
    /\ pow_info.id = "none"
    /\ pow_info' = [id |-> id, reply |-> reply, result |-> get_blocks_pow_info(id, reply)]
    /\ UNCHANGED <<rpcVars, blockVars>>

NextPow == \E id \in {"Hash", "Height"}, reply \in Replies : PowInfoCall(id, reply)

Init == InitRpc /\ InitBlock /\ InitPow

Next == NextRpc

Spec == Init /\ [][Next]_vars

SpecBlock == Init /\ [][NextBlock]_vars

SpecPow == Init /\ [][NextPow]_vars

(***************************************************************************)
(* Fairness for the liveness properties.  From the scheduler: a caller     *)
(* whose readiness check is pending is polled again, a started poll_ready  *)
(* runs to its return, and a call future is driven to completion.  From    *)
(* the callers (the hypothesis of C7): a handle that reached Acquired      *)
(* does issue its call, however often it polls readiness before; this is   *)
(* the one strong condition.  The mutex itself gives no fairness: the      *)
(* lock goes to whichever clone polls while it is free.                    *)
(***************************************************************************)
FairRpc ==
    \A h \in Handles :
        /\ WF_vars(PollReadyCheck(h) /\ rpc_state[h] = "Acquiring")
        /\ WF_vars(PollReadyLoop(h))
        /\ SF_vars(\E req \in ReqKinds : Call(h, req) /\ rpc_state[h] = "Acquired")
        /\ WF_vars(\E fits \in BOOLEAN : FutPoll(h, fits))
        /\ WF_vars(\E out \in RemoteOutcomes("ChainHeight") : RemoteReply(h, out))
        /\ WF_vars(FutReturn(h))

LiveSpec == Init /\ [][Next]_vars /\ FairRpc

(***************************************************************************)
(* Derived notions                                                         *)
(***************************************************************************)
\* remote calls sent on the connection and not yet answered
InFlight == {h \in Handles : fut[h].stage = "awaiting"}

\* the handle or its call future owns the OwnedMutexGuard
HoldsGuard(h) == rpc_state[h] = "Acquired" \/ fut[h].stage # "none"

\* the last readiness check of h returned Pending and nothing has come since
Blocked(h) == rpc_state[h] = "Acquiring" /\ poll_res[h] = "Pending"

\* a step in which the remote call of h is sent
Sends(h) == fut[h].stage = "created" /\ fut'[h].stage = "awaiting"

\* the values rpc_state takes during a poll_ready that starts the loop in st
Visited(st, locked) ==
    <<st>> \o [i \in 1..Len(PollPath(st, locked)) |-> PollPath(st, locked)[i].state]

\* a step in which the loop of the poll_ready of h runs and returns
Polls(h) == pc[h] = "polling" /\ pc'[h] = "idle"

\* a step of the reply in which the call of h stores its error in the slot
StoresError(h) ==
    /\ fut[h].stage = "awaiting" /\ fut'[h].stage = "replied"
    /\ fut'[h].res \in Errors
    /\ WritesErrorSlot(fut[h].req)

\* a step in which the future of h returns its result
Resolves(h) == fut[h].stage = "replied" /\ fut'[h].stage = "none"

\* a step in which the future of h ends: it resolves, or a panic unwinds it
Completes(h) == fut[h].stage # "none" /\ fut'[h].stage = "none"

(***************************************************************************)
(* C1: whatever the interleaving of poll_ready and call on the clones of   *)
(* one adapter, at most one remote call is in flight at any instant.       *)
(***************************************************************************)
C1_AtMostOneInFlight == Cardinality(InFlight) <= 1

\* a remote call is in flight while another clone waits for the connection
C1_Witness ==
    \E h, g \in Handles : h # g /\ fut[h].stage = "awaiting" /\ Blocked(g)

(***************************************************************************)
(* C2 (as claimed): once a call has returned a transport error, every      *)
(* later poll_ready on every clone returns the stored error at once (it    *)
(* does not go on to the lock), and no new remote call is sent.            *)
(***************************************************************************)
C2_Step ==
    returned \in Errors =>
        \A h \in Handles :
            /\ ~(pc[h] = "idle" /\ pc'[h] = "polling")
            /\ (poll_res'[h] # poll_res[h] /\ pc[h] = "idle" /\ pc'[h] = "idle")
                    => poll_res'[h] \in {"None", error_slot}
            /\ ~Sends(h)

C2_StickyAfterErrorReturned == [][C2_Step]_vars

(***************************************************************************)
(* C3 (as claimed): for every request kind, when the remote call failed    *)
(* the error is in the shared error slot before the future returns it.     *)
(***************************************************************************)
C3_ErrorStoredBeforeReturn ==
    \A h \in Handles :
        (fut[h].stage = "replied" /\ fut[h].res \in Errors) => error_slot \in Errors

(***************************************************************************)
(* C4: once the error slot holds an error it never becomes empty again.    *)
(***************************************************************************)
C4_Step == (error_slot \in Errors) => (error_slot' \in Errors)

C4_SlotNeverCleared == [][C4_Step]_vars

\* a call has just succeeded while the slot already holds an error
C4_Witness ==
    /\ error_slot \in Errors
    /\ \E h \in Handles : fut[h].stage = "replied" /\ fut[h].res = "Ok"

(***************************************************************************)
(* C5: call on a handle that is not Acquired (Locked, also after a         *)
(* previous call took the guard, or Acquiring) panics and sends nothing:   *)
(* a call future only ever comes from an Acquired handle, and the panic    *)
(* step leaves every future, the mutex and the error slot as they were.    *)
(***************************************************************************)
C5_Step ==
    \A h \in Handles :
          /\ (fut[h].stage = "none" /\ fut'[h].stage # "none")
                => (rpc_state[h] = "Acquired" /\ pc'[h] # "panicked")
          /\ (rpc_state[h] = "Acquiring" /\ rpc_state'[h] = "Locked")
                => (pc'[h] = "panicked" /\ fut' = fut)
          /\ (pc[h] # "panicked" /\ pc'[h] = "panicked")
                => (rpc_state[h] # "Acquired" /\ fut' = fut
                    /\ mutex_locked' = mutex_locked /\ error_slot' = error_slot)

C5_CallWithoutReadyPanics == [][C5_Step]_vars

\* a handle panicked while the connection was in use by another clone
C5_Witness ==
    \E h, g \in Handles : h # g /\ pc[h] = "panicked" /\ fut[g].stage = "awaiting"

(***************************************************************************)
(* C6: the guard is owned by exactly one caller from the return of its     *)
(* readiness check to the completion of its call: the mutex is locked iff  *)
(* some handle or call future owns the guard, never two; issuing the call  *)
(* keeps it locked; it is unlocked exactly when the future resolves, with  *)
(* a success or with an error.                                             *)
(***************************************************************************)
C6_Step ==
    /\ \A h \in Handles : Completes(h) => ~mutex_locked'
    /\ (mutex_locked /\ ~mutex_locked') => \E h \in Handles : Completes(h)

C6_GuardHeldForWholeCycle ==
    /\ [](/\ mutex_locked <=> (\E h \in Handles : HoldsGuard(h))
          /\ Cardinality({h \in Handles : HoldsGuard(h)}) <= 1)
    /\ [][C6_Step]_vars

\* a failed call has just released the connection while another clone waits
C6_Witness ==
    /\ returned \in Errors
    /\ ~mutex_locked
    /\ \E h \in Handles : Blocked(h)

(***************************************************************************)
(* C7 (as claimed): under the fairness of LiveSpec every clone whose       *)
(* readiness check is pending is eventually unblocked: its poll_ready      *)
(* returns ready or the sticky error.                                      *)
(***************************************************************************)
C7_EveryWaiterUnblocked == \A h \in Handles : Blocked(h) ~> ~Blocked(h)

\* a step in which a clone other than h is granted the connection
OtherAcquires(h) ==
    \E g \in Handles \ {h} : rpc_state[g] # "Acquired" /\ rpc_state'[g] = "Acquired"

(***************************************************************************)
(* C7 (amended): under the fairness of LiveSpec a clone stays pending      *)
(* forever only if other clones are granted the connection again and       *)
(* again: the lock is not handed over in waiting order, so a clone that    *)
(* keeps re-acquiring can overtake a waiter every time.                    *)
(***************************************************************************)
C7_WaiterStarvedOnlyByOvertaking ==
    \A h \in Handles : (<>[]Blocked(h)) => []<><<OtherAcquires(h)>>_vars

\* a call has completed and released the connection while a clone is pending
C7_Witness ==
    /\ returned # "None"
    /\ ~mutex_locked
    /\ \E h \in Handles : Blocked(h) /\ pc[h] = "polling"

(***************************************************************************)
(* Block verification: derived notions                                     *)
(***************************************************************************)
\* some transaction hash of the block is not in the pool
Unresolvable(block) == \E i \in DOMAIN block.txs : block.txs[i] \notin DOMAIN TxPool

\* a collaborator answered step i of the request with an error
StepFailed(rq, i) == rq.trace[i].out \notin {"ok", "pending", "wrong"}

(***************************************************************************)
(* C8: a request yields a MainChain record only when all six steps were    *)
(* run and every one succeeded; when a step fails the request is done with *)
(* an error; until it is done, and when it fails or panics, it shows no    *)
(* record, and a record it shows is complete.                              *)
(***************************************************************************)
C8_RecordOnlyIfAllStepsSucceeded ==
    \A r \in Requests :
        LET rq == vreq[r] IN
        /\ rq.result.kind = "MainChain" =>
              /\ rq.pc = "done"
              /\ Len(rq.trace) = Len(AllSteps)
              /\ \A i \in DOMAIN rq.trace : rq.trace[i].out = "ok"
              /\ rq.result.weight >= 0 /\ rq.result.height >= 0
              /\ rq.result.cumulative_difficulty >= 0 /\ rq.result.pow_hash >= 0
        /\ (\E i \in DOMAIN rq.trace : StepFailed(rq, i)) =>
              (rq.pc = "done" /\ rq.result.kind = "Err" /\ rq.result.weight = -1)
        /\ rq.pc # "done" => rq.result = NoResult

\* one request was approved and another was rejected at the difficulty check
C8_Witness ==
    \E r, q \in Requests :
        /\ vreq[r].result.kind = "MainChain" /\ Len(vreq[r].txs) = 2
        /\ vreq[q].result.kind = "Err" /\ Len(vreq[q].trace) = Len(AllSteps)

(***************************************************************************)
(* C9: the steps of a request are started in the order context, pool,      *)
(* tx_verify, check_block, pow_hash, check_pow, each only after every      *)
(* earlier one succeeded; so the hash is dispatched, and a difficulty      *)
(* failure reported, only after tx_verify and check_block passed.          *)
(***************************************************************************)
C9_StepsInOrderAfterSuccess ==
    \A r \in Requests :
        LET tr == vreq[r].trace IN
        /\ Len(tr) <= Len(AllSteps)
        /\ \A i \in DOMAIN tr :
              /\ tr[i].step = AllSteps[i]
              /\ i < Len(tr) => tr[i].out = "ok"

\* a request was rejected by the difficulty check, the last step
C9_Witness ==
    \E r \in Requests :
        /\ vreq[r].pc = "done"
        /\ Len(vreq[r].trace) = Len(AllSteps)
        /\ vreq[r].trace[Len(AllSteps)].out = "err"
        /\ vreq[r].result.err = "Consensus"

(***************************************************************************)
(* C10: when the pool cannot resolve a transaction hash of the block, the  *)
(* request is done with the missing-data error, shows no record, and the   *)
(* pool lookup was its last step: the verifier, check_block and the hash   *)
(* were never started.                                                     *)
(***************************************************************************)
C10_UnresolvedTxFailsWithMissingData ==
    \A r \in Requests :
        LET rq == vreq[r] IN
        (/\ Unresolvable(rq.block)
         /\ Len(rq.trace) >= 2
         /\ rq.trace[2].out # "pending") =>
            /\ rq.pc = "done"
            /\ rq.result = ErrResult("MissingData")
            /\ Len(rq.trace) = 2

\* a block naming a transaction the pool lacks was rejected
C10_Witness ==
    \E r \in Requests :
        /\ Unresolvable(vreq[r].block)
        /\ vreq[r].pc = "done"
        /\ vreq[r].result.err = "MissingData"

RECURSIVE PoolSum(_, _)

\* the sum of field f of the pool's transactions with the given hashes
PoolSum(hashes, f) ==
    IF hashes = << >> THEN 0 ELSE TxPool[Head(hashes)][f] + PoolSum(Tail(hashes), f)

\* every step of the request was answered with success
AllStepsOk(rq) ==
    /\ Len(rq.trace) = Len(AllSteps)
    /\ \A i \in DOMAIN rq.trace : rq.trace[i].out = "ok"

(***************************************************************************)
(* C11: in every approved request the record's weight is the miner         *)
(* transaction's weight plus the weights of all the block's transactions   *)
(* as the pool holds them, and the total fees handed to check_block are    *)
(* the sum of their fees.                                                  *)
(***************************************************************************)
C11_WeightIsMinerPlusTxs ==
    \A r \in Requests :
        LET rq == vreq[r] IN
        rq.result.kind = "MainChain" =>
            /\ rq.result.weight =
                  rq.block.miner_tx_weight + PoolSum(rq.block.txs, "tx_weight")
            /\ rq.total_fees = PoolSum(rq.block.txs, "fee")
            /\ Len(rq.result.txs) = Len(rq.block.txs)

\* miner weight 600 and two transactions of weight 300, fee 10: 1200 and 20
C11_Witness ==
    \E r \in Requests :
        /\ vreq[r].result.kind = "MainChain"
        /\ vreq[r].block.miner_tx_weight = 600
        /\ Len(vreq[r].block.txs) = 2
        /\ vreq[r].result.weight = 1200
        /\ vreq[r].total_fees = 20

(***************************************************************************)
(* C12: in every approved request the record's cumulative difficulty is    *)
(* the cumulative difficulty plus the next difficulty of the one snapshot  *)
(* the request fetched first, whatever the chain did meanwhile; the same   *)
(* snapshot gave the height and the difficulty the hash was checked        *)
(* against; and no request shows the value before its hash passed.         *)
(***************************************************************************)
C12_CumulativeDifficultyFromSnapshot ==
    \A r \in Requests :
        LET rq == vreq[r] IN
        /\ rq.result.kind = "MainChain" =>
              \E k \in 0..chain :
                  /\ rq.context = ContextSnapshot(k)
                  /\ rq.result.cumulative_difficulty =
                        CumulativeDifficulty(k) + NextDifficulty(k)
                  /\ rq.result.height = ContextSnapshot(k).chain_height
                  /\ CheckBlockPow(rq.result.pow_hash, NextDifficulty(k))
        /\ rq.result.cumulative_difficulty # -1 =>
              (Len(rq.trace) = Len(AllSteps) /\ rq.trace[Len(AllSteps)].out = "ok")

\* height 100, next difficulty 500, cumulative difficulty 10000 give 10500,
\* also when the chain has grown since the snapshot
C12_Witness ==
    \E r \in Requests :
        /\ vreq[r].result.kind = "MainChain"
        /\ vreq[r].result.height = 100
        /\ vreq[r].result.cumulative_difficulty = 10500
        /\ chain = 1

(***************************************************************************)
(* C13: the error of a failed request tells the kind of the step that      *)
(* failed: the context service's failure is an upstream failure, an        *)
(* unresolved transaction is missing data, a failed check_block, hash or   *)
(* difficulty check is a consensus rejection, and the verifier's error is  *)
(* handed on as it came.                                                   *)
(***************************************************************************)
C13_ErrorKindTellsFailedStep ==
    \A r \in Requests :
        LET rq == vreq[r]
            last == rq.trace[Len(rq.trace)]
        IN
        rq.result.kind = "Err" =>
            /\ last.step = "context" => rq.result.err = "Upstream"
            /\ last.step = "pool" => rq.result.err = "MissingData"
            /\ last.step = "tx_verify" => rq.result.err = last.out
            /\ last.step \in {"check_block", "pow_hash", "check_pow"}
                  => rq.result.err = "Consensus"
            /\ last.out # "ok"

\* one request failed at the context service, another at check_block
C13_Witness ==
    \E r, q \in Requests :
        /\ vreq[r].result.err = "Upstream" /\ Len(vreq[r].trace) = 1
        /\ vreq[q].result.err = "Consensus" /\ Len(vreq[q].trace) = 4

(***************************************************************************)
(* C14: requests are independent: a step of one request changes nothing    *)
(* of another, and a finished request is approved exactly when its own     *)
(* steps all succeeded, so two different blocks that each pass are both    *)
(* approved, also at the same height.                                      *)
(***************************************************************************)
C14_Step ==
    \A r, q \in Requests :
        (r # q /\ vreq'[r] # vreq[r]) => vreq'[q] = vreq[q]

C14_RequestsIndependent ==
    /\ [](\A r \in Requests :
             vreq[r].pc = "done" => (vreq[r].result.kind = "MainChain" <=> AllStepsOk(vreq[r])))
    /\ [][C14_Step]_vars

\* two different blocks were approved at the same height
C14_Witness ==
    \E r, q \in Requests :
        /\ vreq[r].block # vreq[q].block
        /\ vreq[r].result.kind = "MainChain"
        /\ vreq[q].result.kind = "MainChain"
        /\ vreq[r].result.height = vreq[q].result.height

(***************************************************************************)
(* C15 (as claimed): a chain-height call whose remote height does not fit  *)
(* the adapter's height type ends with a failure result handed to the      *)
(* caller: its future never ends by a panic.                               *)
(***************************************************************************)
C15_UnrepresentableHeightFailsCleanly == returned # "PanicChainHeight"

(***************************************************************************)
(* C16: for every pair of halves in a proof-of-work-info reply, by hash    *)
(* and by height, the cumulative difficulty of the response is             *)
(* cumulative_difficulty_top64 * 2^HalfBits + cumulative_difficulty: no    *)
(* bit of either half is lost and the value fits the joined type; the      *)
(* timestamp is the reply's.                                               *)
(***************************************************************************)
C16_CumulativeDifficultyJoinsHalves ==
    pow_info.reply.ok =>
        /\ pow_info.result.kind = "BlockPOWInfo"
        /\ pow_info.result.cumulative_difficulty =
              pow_info.reply.cumulative_difficulty_top64 * Half
                 + pow_info.reply.cumulative_difficulty
        /\ pow_info.result.cumulative_difficulty \in 0 .. (Wide - 1)
        /\ pow_info.result.timestamp = pow_info.reply.timestamp

\* low half all ones, high half 1, looked up by hash
C16_Witness ==
    /\ pow_info.id = "Hash"
    /\ pow_info.reply.cumulative_difficulty = Half - 1
    /\ pow_info.reply.cumulative_difficulty_top64 = 1
    /\ pow_info.result.cumulative_difficulty = Half + (Half - 1)

(***************************************************************************)
(* C17 (as claimed): the state of a handle only moves Locked -> Acquiring  *)
(* -> Acquired -> Locked, poll_ready passing through Acquiring, and the    *)
(* handle is Locked again after its call completes.  Read in the claim's   *)
(* favour: a call that panics is left aside, and the handle need only be   *)
(* Locked when its call has completed, not stay Acquired until then.       *)
(***************************************************************************)
C17_PollInCycle(h) ==
    Polls(h) =>
        LET v == Visited(rpc_state[h], mutex_locked) IN
        /\ v[Len(v)] = rpc_state'[h]
        /\ \A i \in 1..(Len(v) - 1) :
              \/ v[i + 1] = v[i]
              \/ <<v[i], v[i + 1]>> \in {<<"Locked", "Acquiring">>, <<"Acquiring", "Acquired">>}

C17_StepAsClaimed ==
    \A h \in Handles :
        /\ C17_PollInCycle(h)
        /\ (~Polls(h) /\ rpc_state'[h] # rpc_state[h] /\ pc'[h] # "panicked")
              => (rpc_state[h] = "Acquired" /\ rpc_state'[h] = "Locked")
        /\ Resolves(h) => rpc_state'[h] = "Locked"

C17_IdleAgainWhenCallCompletes == [][C17_StepAsClaimed]_vars

(***************************************************************************)
(* C17 (amended): poll_ready moves a handle Locked -> Acquiring ->         *)
(* Acquired, never past Acquiring without the lock; a handle leaves        *)
(* Acquired only by a call that creates its future, and it is Locked at    *)
(* once, not when the call completes: the guard is in the future, the      *)
(* completion does not touch the handle, which may by then be Acquiring    *)
(* again.  The one step backwards is a call on an Acquiring handle, which  *)
(* panics and leaves it Locked.                                            *)
(***************************************************************************)
C17_Step ==
    \A h \in Handles :
        /\ C17_PollInCycle(h)
        /\ (~Polls(h) /\ rpc_state'[h] # rpc_state[h]) =>
              \/ /\ rpc_state[h] = "Acquired" /\ rpc_state'[h] = "Locked"
                 /\ fut[h].stage = "none" /\ fut'[h].stage = "created"
              \/ /\ rpc_state[h] = "Acquiring" /\ rpc_state'[h] = "Locked"
                 /\ pc'[h] = "panicked"
        /\ Completes(h) =>
              (rpc_state'[h] = rpc_state[h] /\ rpc_state[h] \in {"Locked", "Acquiring"})

C17_IdleAgainWhenCallIssued == [][C17_Step]_vars

\* the call of a handle is in flight and the handle is already in its next
\* cycle, waiting for the lock its own future holds
C17_Witness ==
    \E h \in Handles : fut[h].stage = "awaiting" /\ rpc_state[h] = "Acquiring"

(***************************************************************************)
(* C18 (as claimed): once the error slot holds an error, no call stores    *)
(* an error into it again and the stored error is not replaced.            *)
(***************************************************************************)
C18_Step ==
    error_slot \in Errors =>
        (error_slot' = error_slot /\ \A h \in Handles : ~StoresError(h))

C18_SlotWrittenAtMostOnce == [][C18_Step]_vars

(***************************************************************************)
(* C19 (as claimed): no remote call is sent while the error slot holds an  *)
(* error, whatever ran between a poll_ready's read of the slot and its     *)
(* poll of the lock.                                                       *)
(***************************************************************************)
C19_Step == error_slot \in Errors => \A h \in Handles : ~Sends(h)

C19_NoCallSentAfterError == [][C19_Step]_vars

(***************************************************************************)
(* C20: a clone of a handle in any state starts Locked with no future and  *)
(* no guard; the step leaves the mutex, the error slot and every existing  *)
(* handle's state and future as they were, so the guard has the same one   *)
(* owner before and after.                                                 *)
(***************************************************************************)
C20_Step ==
    \A n \in Handles :
        (n \notin handles /\ n \in handles') =>
            /\ rpc_state'[n] = "Locked"
            /\ fut'[n] = NoFut
            /\ mutex_locked' = mutex_locked
            /\ error_slot' = error_slot
            /\ \A h \in handles : rpc_state'[h] = rpc_state[h] /\ fut'[h] = fut[h]

C20_CloneStartsLockedAndShares == [][C20_Step]_vars

\* the clone of the handle that owns the guard waits for the same lock
C20_Witness ==
    /\ handles = {1, 2}
    /\ rpc_state[1] = "Acquired" /\ fut[1].stage = "none"
    /\ Blocked(2)

====
